---- MODULE Spec2Model ----
(***************************************************************************)
(* html2component: the markup parser (parser.ts), the attribute classifier *)
(* and the code generator (index.ts).                                      *)
(*                                                                         *)
(* Strings whose characters the code inspects (attribute names and values, *)
(* text runs, handles) are sequences of one-character strings.  Tag names  *)
(* are only compared and copied, so they are atoms.  The entity "&nbsp;"   *)
(* is one symbol of the alphabet; decode maps it to the symbol NBSP.       *)
(***************************************************************************)
EXTENDS Integers, Sequences, FiniteSets, TLC

\* ------------------------------------------------------------------ bounds
MaxNodes == 3
MaxTextLen == 2

\* ------------------------------------------------------------ string tools
NBSP == "nbsp"
ENT == "&nbsp;"
WhiteSpace == {" ", "\n", "\r", "\t", NBSP}

RECURSIVE TrimStart(_)
TrimStart(s) ==
  IF s # <<>> /\ Head(s) \in WhiteSpace THEN TrimStart(Tail(s)) ELSE s

RECURSIVE TrimEnd(_)
TrimEnd(s) ==
  IF s # <<>> /\ s[Len(s)] \in WhiteSpace
  THEN TrimEnd(SubSeq(s, 1, Len(s) - 1)) ELSE s

\* String.prototype.trim
Trim(s) == TrimEnd(TrimStart(s))

\* String.prototype.startsWith
StartsWith(s, p) == Len(s) >= Len(p) /\ SubSeq(s, 1, Len(p)) = p

\* text.replace(/\r?\n/g, '\n')
RECURSIVE NormalizeNewlines(_)
NormalizeNewlines(s) ==
  IF s = <<>> THEN <<>>
  ELSE IF Len(s) >= 2 /\ s[1] = "\r" /\ s[2] = "\n"
       THEN <<"\n">> \o NormalizeNewlines(SubSeq(s, 3, Len(s)))
       ELSE <<Head(s)>> \o NormalizeNewlines(Tail(s))

\* attrs[name].replace(/[\r\n...]+/g, ' '): each run of line breaks is one space
RECURSIVE CollapseNewlines(_)
CollapseNewlines(s) ==
  IF s = <<>> THEN <<>>
  ELSE IF Head(s) \in {"\r", "\n"}
       THEN IF Len(s) >= 2 /\ s[2] \in {"\r", "\n"}
            THEN CollapseNewlines(Tail(s))
            ELSE <<" ">> \o CollapseNewlines(Tail(s))
       ELSE <<Head(s)>> \o CollapseNewlines(Tail(s))

\* html-entities decode, on the one entity of the alphabet
RECURSIVE decode(_)
decode(s) ==
  IF s = <<>> THEN <<>>
  ELSE <<IF Head(s) = ENT THEN NBSP ELSE Head(s)>> \o decode(Tail(s))

\* decimal digits of a positive integer, as in `${refId}`
RECURSIVE Digits(_)
Digits(n) ==
  LET d == <<"0", "1", "2", "3", "4", "5", "6", "7", "8", "9">>[(n % 10) + 1]
  IN IF n < 10 THEN <<d>> ELSE Digits(n \div 10) \o <<d>>

\* ------------------------------------------------------- tokenizer inputs
Attr(n, v) == [name |-> n, value |-> v]

RefName == <<"#", "r", "e", "f">>
OnClick == <<"o", "n", ":", "c">>
OnKeyMod == <<"o", "n", ":", "k", "|", "m">>
OnDrag == <<"o", "n", ":", "d">>
ClassName == <<"c", "l", "a", "s", "s">>

\* the attribs maps htmlparser2 hands to onopentag, in key order
AttribChoices ==
  { <<>>,
    <<Attr(RefName, <<>>)>>,
    <<Attr(RefName, <<" ">>)>>,
    <<Attr(OnClick, <<"{", "h", "}">>), Attr(ClassName, <<"c">>),
      Attr(OnKeyMod, <<"{", "g", "}">>), Attr(OnDrag, <<"h">>)>> }

TagNames == {"div", "svg", "template", "script", "style"}

OpenTagInputs ==
  {[name |-> t, attribs |-> <<>>] : t \in TagNames}
    \cup {[name |-> "div", attribs |-> a] : a \in AttribChoices}

\* the raw text runs handed to ontext
TextInputs ==
  { <<" ", "x", " ">>,
    <<ENT, "y">>,
    <<" ">>,
    <<"<", "!", "-", "-", "c">> }

\* ------------------------------------------------------------------ state
VARIABLES
  pc,         \* "parsing" | "parsed" | "error" | "flat" | "compiled"
  refCount,   \* parse: let refCount
  nodes,      \* the Node objects created by parse, by refId
  nodeStack,  \* parse: const nodeStack (refIds)
  lastNode,   \* parse: let lastNode (refId, 0 for undefined)
  flatNodes,  \* parse: const flatNodes (refIds)
  roots,      \* the value parse returns (refIds)
  flatOut,    \* the value flat returns (refIds)
  visited,    \* the nodes walk handed to flat's visitor, in call order
  output,     \* the value compile returns (lines)
  attrIn,     \* compileAttribute: the NodeAttribute argument
  attrOut,    \* compileAttribute: the value returned
  eventLog,   \* the tokenizer events of the invocation under way, in order
  callNo      \* the invocations of compile started so far

parseVars == <<refCount, nodes, nodeStack, lastNode, flatNodes, roots>>
attrVars == <<attrIn, attrOut>>
callVars == <<eventLog, callNo>>
vars == <<pc, refCount, nodes, nodeStack, lastNode, flatNodes, roots,
          flatOut, visited, output, attrIn, attrOut, eventLog, callNo>>

None == [type |-> "none"]

\* ----------------------------------------------------------------- parser
TagNode(id, par, name, attributes) ==
  [refId |-> id, parent |-> par, type |-> "tag", tag |-> name,
   attributes |-> attributes, children |-> <<>>, textContent |-> <<>>]

TextNode(id, par, text) ==
  [refId |-> id, parent |-> par, type |-> "text", tag |-> "",
   attributes |-> <<>>, children |-> <<>>, textContent |-> text]

\* function parent(): the top of nodeStack, or null (0)
parent == IF nodeStack = <<>> THEN 0 ELSE nodeStack[Len(nodeStack)]

normalizeAttributes(attribs) ==
  [i \in 1..Len(attribs) |->
     Attr(attribs[i].name, Trim(CollapseNewlines(attribs[i].value)))]

Append1(f, id, rec) == [i \in 1..id |-> IF i = id THEN rec ELSE f[i]]

onopentag(name, attribs) ==
  /\ pc = "parsing"
  /\ refCount < MaxNodes
  /\ refCount' = refCount + 1
  /\ nodes' = Append1(nodes, refCount + 1,
                      TagNode(refCount + 1, parent, name,
                              normalizeAttributes(attribs)))
  /\ lastNode' = refCount + 1
  /\ nodeStack' = Append(nodeStack, refCount + 1)
  /\ UNCHANGED <<pc, flatNodes, roots, flatOut, visited, output, attrVars>>

\* nodeStack.pop()! is undefined on an empty stack: node.endIndex = ... throws
onclosetag ==
  /\ pc = "parsing"
  /\ IF nodeStack = <<>>
     THEN /\ pc' = "error"
          /\ UNCHANGED <<nodeStack, lastNode, flatNodes>>
     ELSE /\ nodeStack' = SubSeq(nodeStack, 1, Len(nodeStack) - 1)
          /\ lastNode' = 0
          /\ flatNodes' = Append(flatNodes, nodeStack[Len(nodeStack)])
          /\ pc' = pc
  /\ UNCHANGED <<refCount, nodes, roots, flatOut, visited, output, attrVars>>

\* mutant: the counter is stepped before the run is looked at
ontextCountsDropped(raw) ==
  /\ pc = "parsing"
  /\ refCount < MaxNodes
  /\ LET text == NormalizeNewlines(Trim(raw)) IN
     IF text = <<>> \/ StartsWith(text, <<"<", "!", "-", "-">>)
     THEN /\ refCount' = refCount + 1
          /\ UNCHANGED <<nodes, lastNode, flatNodes>>
     ELSE IF lastNode # 0 /\ nodes[lastNode].type = "text"
     THEN /\ Len(nodes[lastNode].textContent) + Len(text) <= MaxTextLen
          /\ nodes' = [nodes EXCEPT ![lastNode].textContent = @ \o text]
          /\ UNCHANGED <<refCount, lastNode, flatNodes>>
     ELSE /\ refCount' = refCount + 1
          /\ nodes' = Append1(nodes, refCount + 1,
                              TextNode(refCount + 1, parent, text))
          /\ lastNode' = refCount + 1
          /\ flatNodes' = Append(flatNodes, refCount + 1)
  /\ UNCHANGED <<pc, nodeStack, roots, flatOut, visited, output, attrVars>>

ontext(raw) ==
  /\ pc = "parsing"
  /\ LET text == NormalizeNewlines(Trim(raw)) IN
     IF text = <<>> \/ StartsWith(text, <<"<", "!", "-", "-">>)
     THEN UNCHANGED <<refCount, nodes, lastNode, flatNodes>>
     ELSE IF lastNode # 0 /\ nodes[lastNode].type = "text"
     THEN /\ Len(nodes[lastNode].textContent) + Len(text) <= MaxTextLen
          /\ nodes' = [nodes EXCEPT ![lastNode].textContent = @ \o text]
          /\ UNCHANGED <<refCount, lastNode, flatNodes>>
     ELSE /\ refCount < MaxNodes
          /\ refCount' = refCount + 1
          /\ nodes' = Append1(nodes, refCount + 1,
                              TextNode(refCount + 1, parent, text))
          /\ lastNode' = refCount + 1
          /\ flatNodes' = Append(flatNodes, refCount + 1)
  /\ UNCHANGED <<pc, nodeStack, roots, flatOut, visited, output, attrVars>>

Reverse(s) == [i \in 1..Len(s) |-> s[Len(s) + 1 - i]]

RECURSIVE LinkChildrenUnshift(_, _)
\* mutant: the node is put in front of its parent's children
LinkChildrenUnshift(ns, fl) ==
  IF fl = <<>> THEN ns
  ELSE LET n == Head(fl)
           p == ns[n].parent
           ns1 == IF p # 0 /\ ns[p].type = "tag"
                  THEN [ns EXCEPT ![p].children = <<n>> \o @]
                  ELSE ns
       IN LinkChildrenUnshift(ns1, Tail(fl))

\* flatNodes.forEach(node => node.parent.children.push(node))
RECURSIVE LinkChildren(_, _)
LinkChildren(ns, fl) ==
  IF fl = <<>> THEN ns
  ELSE LET n == Head(fl)
           p == ns[n].parent
           ns1 == IF p # 0 /\ ns[p].type = "tag"
                  THEN [ns EXCEPT ![p].children = Append(@, n)]
                  ELSE ns
       IN LinkChildren(ns1, Tail(fl))

\* mutant: a tag still open at the end of the input is an error
endUnclosedThrows ==
  /\ pc = "parsing"
  /\ IF nodeStack = <<>>
     THEN /\ roots' = SelectSeq(flatNodes, LAMBDA n : nodes[n].parent = 0)
          /\ nodes' = LinkChildren(nodes, flatNodes)
          /\ pc' = "parsed"
     ELSE /\ pc' = "error"
          /\ UNCHANGED <<nodes, roots>>
  /\ lastNode' = 0
  /\ UNCHANGED <<nodeStack, flatNodes, refCount, flatOut, visited, output, attrVars>>

\* parser.end(): the tokenizer closes every tag still open (onclosetag for each,
\* innermost first); then parse links the children and returns the roots
end ==
  /\ pc = "parsing"
  /\ LET closed == flatNodes \o Reverse(nodeStack)
         linked == LinkChildren(nodes, closed)
         IsRoot(n) == linked[n].parent = 0
     IN /\ flatNodes' = closed
        /\ nodes' = linked
        /\ roots' = SelectSeq(closed, IsRoot)
  /\ nodeStack' = <<>>
  /\ lastNode' = 0
  /\ pc' = "parsed"
  /\ UNCHANGED <<refCount, flatOut, visited, output, attrVars>>

\* ---------------------------------------------------------- walk and flat
RECURSIVE walkChildrenFirst(_, _)
\* mutant: the children are visited before the node
walkChildrenFirst(ns, ids) ==
  IF ids = <<>> THEN <<>>
  ELSE LET n == Head(ids)
       IN (IF ns[n].type = "tag" THEN walkChildrenFirst(ns, ns[n].children) ELSE <<>>)
            \o <<n>> \o walkChildrenFirst(ns, Tail(ids))

RECURSIVE walk(_, _)
\* the refIds in the order walk hands them to the visitor
walk(ns, ids) ==
  IF ids = <<>> THEN <<>>
  ELSE LET n == Head(ids)
       IN <<n>> \o (IF ns[n].type = "tag" THEN walk(ns, ns[n].children) ELSE <<>>)
              \o walk(ns, Tail(ids))

Range(s) == {s[i] : i \in DOMAIN s}

RECURSIVE Dedupe(_, _, _)
\* flat's visitor: push the node unless nodeSet has its refId
Dedupe(ns, calls, acc) ==
  IF calls = <<>> THEN acc
  ELSE Dedupe(ns, Tail(calls),
              IF \E i \in DOMAIN acc : ns[acc[i]].refId = ns[Head(calls)].refId
              THEN acc ELSE Append(acc, Head(calls)))

flat(ns, ids) == Dedupe(ns, walk(ns, ids), <<>>)

flatStep ==
  /\ pc = "parsed"
  /\ flatOut' = flat(nodes, roots)
  /\ visited' = walk(nodes, roots)
  /\ pc' = "flat"
  /\ UNCHANGED <<parseVars, output, attrVars>>

\* ---------------------------------------------------- attribute classifier
RECURSIVE TrimAnyStart(_, _)
TrimAnyStart(s, chars) ==
  IF s # <<>> /\ Head(s) \in chars THEN TrimAnyStart(Tail(s), chars) ELSE s

RECURSIVE TrimAnyEnd(_, _)
TrimAnyEnd(s, chars) ==
  IF s # <<>> /\ s[Len(s)] \in chars
  THEN TrimAnyEnd(SubSeq(s, 1, Len(s) - 1), chars) ELSE s

\* utils.trimAny: strip the given characters from both ends
trimAny(s, chars) == TrimAnyEnd(TrimAnyStart(s, chars), chars)

\* String.prototype.indexOf, 0-based, -1 when absent
IndexOf(s, c) ==
  IF \E i \in DOMAIN s : s[i] = c
  THEN (CHOOSE i \in DOMAIN s : s[i] = c /\ \A j \in 1..(i - 1) : s[j] # c) - 1
  ELSE -1

RECURSIVE Split(_, _)
\* String.prototype.split on any of the separator characters
Split(s, seps) ==
  IF \E i \in DOMAIN s : s[i] \in seps
  THEN LET i == CHOOSE k \in DOMAIN s :
                  s[k] \in seps /\ \A j \in 1..(k - 1) : s[j] \notin seps
       IN <<SubSeq(s, 1, i - 1)>> \o Split(SubSeq(s, i + 1, Len(s)), seps)
  ELSE <<s>>

Directive(t, n, v, var, ev, mods) ==
  [type |-> t, name |-> n, value |-> v, variable |-> var,
   eventName |-> ev, modifiers |-> mods]

RefAttribute(n) == Directive("ref", n, <<>>, <<>>, <<>>, <<>>)
VariableAttribute(n, var) == Directive("variable", n, <<>>, var, <<>>, <<>>)
EventAttribute(ev, mods, var) == Directive("event", <<>>, <<>>, var, ev, mods)
GenericAttribute(n, v) == Directive("attribute", n, v, <<>>, <<>>, <<>>)

Braces == {"{", "}"}
El == <<"e", "l">>

\* name: value.trim() || 'el'
refAttribute(trimmed) == RefAttribute(IF trimmed # <<>> THEN trimmed ELSE El)

\* variable shorthand: name and variable are the same string
shorthandAttribute(variableName) == VariableAttribute(variableName, variableName)

eventAttribute(eventNameParts, variable) ==
  EventAttribute(eventNameParts[1], Tail(eventNameParts), variable)

\* the branch of a value that starts with '{': an event when the name has a
\* ':' after its first character and 'on' before it, else a variable
assignmentAttribute(name, variable, eventParts) ==
  IF IndexOf(name, ":") > 0 /\ eventParts[1] = <<"o", "n">>
  THEN eventAttribute(Split(eventParts[2], {"|", "."}), variable)
  ELSE VariableAttribute(name, variable)

\* mutant: the value of '#ref' is not trimmed
compileAttributeRawRef(a) ==
  IF a.name = RefName THEN refAttribute(a.value)
  ELSE GenericAttribute(a.name, a.value)

\* mutant: a name with ':' is read as an assignment whatever its value
compileAttributeEventFirst(a) ==
  IF StartsWith(a.name, <<"=">>) THEN None
  ELSE IF a.name = RefName THEN refAttribute(Trim(a.value))
  ELSE IF StartsWith(a.name, <<"{">>)
    THEN shorthandAttribute(Trim(trimAny(a.name, Braces)))
  ELSE IF IndexOf(a.name, ":") > 0 \/ StartsWith(a.value, <<"{">>)
    THEN assignmentAttribute(a.name, Trim(trimAny(a.value, Braces)),
                             Split(a.name, {":"}))
  ELSE GenericAttribute(a.name, a.value)

compileAttribute(a) ==
  IF StartsWith(a.name, <<"=">>) THEN None
  ELSE IF a.name = RefName THEN refAttribute(Trim(a.value))
  ELSE IF StartsWith(a.name, <<"{">>)
    THEN shorthandAttribute(Trim(trimAny(a.name, Braces)))
  ELSE IF StartsWith(a.value, <<"{">>)
    THEN assignmentAttribute(a.name, Trim(trimAny(a.value, Braces)),
                             Split(a.name, {":"}))
  ELSE GenericAttribute(a.name, a.value)

\* ------------------------------------------------------------ node compiler
isSvgNode(ns, n) == ns[n].type = "tag" /\ ns[n].tag = "svg"

\* mutant: only the direct parent is looked at
hasSvgParentDirect(ns, n) == ns[n].parent # 0 /\ isSvgNode(ns, ns[n].parent)

RECURSIVE hasSvgParent(_, _)
hasSvgParent(ns, n) ==
  IF ns[n].parent # 0
  THEN isSvgNode(ns, ns[n].parent) \/ hasSvgParent(ns, ns[n].parent)
  ELSE FALSE

shouldRenderAsSvg(ns, n) == isSvgNode(ns, n) \/ hasSvgParent(ns, n)

Declared(n, t, tg, ref, evs, vas, as, c) ==
  [node |-> n, parent |-> 0, type |-> t, tag |-> tg, refTag |-> ref,
   events |-> evs, variableAttributes |-> vas, attributes |-> as,
   children |-> <<>>, content |-> c]

\* the ElementNode of a tag node, from its compiled attributes
elementNode(n, type, tag, attrs) ==
  LET IsRef(d) == d.type = "ref"
      IsEvent(d) == d.type = "event"
      IsVariable(d) == d.type = "variable"
      IsAttribute(d) == d.type = "attribute"
      refs == SelectSeq(attrs, IsRef)
  IN Declared(n, type, tag, IF refs = <<>> THEN <<>> ELSE refs[1].name,
              SelectSeq(attrs, IsEvent), SelectSeq(attrs, IsVariable),
              SelectSeq(attrs, IsAttribute), <<>>)

\* node.attributes.map(compileAttribute).filter(Boolean)
compileAttributes(attributes) ==
  LET IsDirective(d) == d # None
  IN SelectSeq([i \in DOMAIN attributes |-> compileAttribute(attributes[i])],
               IsDirective)

\* the compiled node's parent is always null (0); refTag <<>> is undefined
compileNode(ns, n) ==
  IF ns[n].type = "text"
  THEN Declared(n, "text", "", <<>>, <<>>, <<>>, <<>>, decode(ns[n].textContent))
  ELSE elementNode(n, IF shouldRenderAsSvg(ns, n) THEN "svg" ELSE "element",
                   ns[n].tag, compileAttributes(ns[n].attributes))

\* ------------------------------------------------------------------ reduce
\* st.heap: the declared nodes in creation order; st.nodeTo: refId -> its
\* declared node (an index of heap)
\* mutant: the map is read at the node's own refId
getParentOwnId(ns, n, st) ==
  IF n \in DOMAIN st.nodeTo THEN st.nodeTo[n] ELSE 0

getParent(ns, n, st) ==
  IF ns[n].parent # 0 /\ ns[n].parent \in DOMAIN st.nodeTo
  THEN st.nodeTo[ns[n].parent] ELSE 0

\* compiled.parent = parent; parent?.children.push(compiled)
attach(compiled, par, st) ==
  [heap |-> Append(IF par # 0 /\ st.heap[par].type # "text"
                   THEN [st.heap EXCEPT ![par].children = Append(@, Len(st.heap) + 1)]
                   ELSE st.heap,
                   [compiled EXCEPT !.parent = par]),
   nodeTo |-> st.nodeTo]

\* the visitor compile passes to reduce; the node it returns is the last of heap
visit(ns, n, par, st) == attach(compileNode(ns, n), par, st)

\* nodeTo.set(node.refId, reduced)
setNodeTo(n, st) ==
  [heap |-> st.heap, nodeTo |-> (n :> Len(st.heap)) @@ st.nodeTo]

RECURSIVE reduceWalk(_, _, _)

\* if (isTagNode(node)) reduceWalk(node.children)
reduceChildren(ns, n, st) ==
  IF ns[n].type = "tag" THEN reduceWalk(ns, ns[n].children, st) ELSE st

reduceWalk(ns, ids, st) ==
  IF ids = <<>> THEN st
  ELSE reduceWalk(ns, Tail(ids),
         reduceChildren(ns, Head(ids),
           setNodeTo(Head(ids),
             visit(ns, Head(ids), getParent(ns, Head(ids), st), st))))

\* the array the top-level reduceWalk returns
reduced(ids, st) ==
  [heap |-> st.heap, nodeTo |-> st.nodeTo,
   out |-> [i \in DOMAIN ids |-> st.nodeTo[ids[i]]]]

reduce(ns, ids) ==
  reduced(ids, reduceWalk(ns, ids, [heap |-> <<>>, nodeTo |-> <<>>]))

\* ----------------------------------------------------------- prepareNodes
\* mutant: the style case is missing
prepareNodesNoStyle(heap, ids) ==
  LET Is(d, tg) == heap[d].parent = 0 /\ heap[d].type = "element" /\ heap[d].tag = tg
      IsTemplate(d) == Is(d, "template")
      IsScript(d) == Is(d, "script")
      IsRoot(d) == heap[d].parent = 0 /\ ~(IsTemplate(d) \/ IsScript(d))
  IN [rootNodes |-> SelectSeq(ids, IsRoot),
      templates |-> SelectSeq(ids, IsTemplate),
      scripts |-> SelectSeq(ids, IsScript),
      styles |-> <<>>]

\* nodes: the declared nodes reduce returned (indices of heap)
prepareNodes(heap, ids) ==
  LET Is(d, tg) == heap[d].parent = 0 /\ heap[d].type = "element" /\ heap[d].tag = tg
      IsTemplate(d) == Is(d, "template")
      IsScript(d) == Is(d, "script")
      IsStyle(d) == Is(d, "style")
      IsRoot(d) == heap[d].parent = 0
                     /\ ~(IsTemplate(d) \/ IsScript(d) \/ IsStyle(d))
  IN [rootNodes |-> SelectSeq(ids, IsRoot),
      templates |-> SelectSeq(ids, IsTemplate),
      scripts |-> SelectSeq(ids, IsScript),
      styles |-> SelectSeq(ids, IsStyle)]

\* ----------------------------------------------------------- code generator
\* One record per output line; `of` is the refId of the node the line was
\* emitted for (0 for the wrapper), kept beside the text of the line.
Line(k, o, h, f, a, b) ==
  [kind |-> k, of |-> o, handle |-> h, form |-> f, arg |-> a, arg2 |-> b]

BlankLine == Line("blank", 0, <<>>, "", <<>>, <<>>)
OpenLine == Line("open", 0, <<>>, "export function compile() {", <<>>, <<>>)
CloseLine == Line("close", 0, <<>>, "}", <<>>, <<>>)

nameof(heap, d) ==
  LET name == IF heap[d].type = "text" THEN <<>> ELSE heap[d].refTag
  IN IF name # <<>> THEN name ELSE El \o Digits(heap[d].node)

attributeLine(heap, d, attr) ==
  LET target == IF attr.name \in {<<"w", "i", "d", "t", "h">>,
                                  <<"h", "e", "i", "g", "h", "t">>} THEN "property"
                ELSE IF attr.name = ClassName THEN "className"
                ELSE IF attr.name = <<"s", "t", "y", "l", "e">> THEN "style.cssText"
                ELSE "setAttribute"
  IN Line("attr", heap[d].node, nameof(heap, d), target, attr.name, attr.value)

\* mutant: the appendChild line is written before the node's own lines
compileHtmlAppendFirst(heap, d) ==
  LET n == heap[d].node
  IN (IF heap[d].parent # 0
      THEN <<Line("append", n, nameof(heap, heap[d].parent), "appendChild",
                  nameof(heap, d), <<>>)>>
      ELSE <<>>)
     \o <<Line("create", n, nameof(heap, d),
               IF heap[d].type = "text" THEN "createTextNode"
               ELSE IF heap[d].type = "svg" THEN "createElementNS"
               ELSE "createElement",
               IF heap[d].type = "text" THEN heap[d].content ELSE heap[d].tag, <<>>)>>
     \o (IF heap[d].type = "text" THEN <<>>
         ELSE [i \in DOMAIN heap[d].attributes |->
                 attributeLine(heap, d, heap[d].attributes[i])])
     \o <<BlankLine>>

\* the lines of indent(compileHtml(node).trim()), then the blank line
compileHtml(heap, d) ==
  LET n == heap[d].node
      create ==
        IF heap[d].type = "text"
        THEN Line("create", n, nameof(heap, d), "createTextNode", heap[d].content, <<>>)
        ELSE IF heap[d].type = "svg"
        THEN Line("create", n, nameof(heap, d), "createElementNS", heap[d].tag, <<>>)
        ELSE Line("create", n, nameof(heap, d), "createElement", heap[d].tag, <<>>)
      attrs ==
        IF heap[d].type = "text" THEN <<>>
        ELSE [i \in DOMAIN heap[d].attributes |->
                attributeLine(heap, d, heap[d].attributes[i])]
      append ==
        IF heap[d].parent # 0
        THEN <<Line("append", n, nameof(heap, heap[d].parent), "appendChild",
                    nameof(heap, d), <<>>)>>
        ELSE <<>>
  IN <<create>> \o attrs \o append \o <<BlankLine>>

RECURSIVE walkDeclared(_, _)
\* the declared nodes in the order walkDeclared hands them to the visitor
walkDeclared(heap, ids) ==
  IF ids = <<>> THEN <<>>
  ELSE LET d == Head(ids)
       IN <<d>> \o (IF heap[d].type # "text"
                    THEN walkDeclared(heap, heap[d].children) ELSE <<>>)
              \o walkDeclared(heap, Tail(ids))

RECURSIVE Concat(_)
Concat(ss) == IF ss = <<>> THEN <<>> ELSE Head(ss) \o Concat(Tail(ss))

\* the lines the visitor of the first walkDeclared writes
structureOf(heap, order) ==
  Concat([i \in DOMAIN order |-> compileHtml(heap, order[i])])

\* the first walkDeclared of compile: the structural lines
structureLines(heap, rootNodes) == structureOf(heap, walkDeclared(heap, rootNodes))

\* mutant: only the first event of a node is collected
eventsOfFirst(heap, order) ==
  Concat([i \in DOMAIN order |->
    IF heap[order[i]].type = "text" THEN <<>>
    ELSE [j \in DOMAIN heap[order[i]].events \cap {1} |->
            [node |-> order[i], event |-> heap[order[i]].events[j]]]])

\* the events the visitor of the first walkDeclared pushes
eventsOf(heap, order) ==
  Concat([i \in DOMAIN order |->
    IF heap[order[i]].type = "text" THEN <<>>
    ELSE [j \in DOMAIN heap[order[i]].events |->
            [node |-> order[i], event |-> heap[order[i]].events[j]]]])

\* the events array compile fills during the first walk
collectEvents(heap, rootNodes) == eventsOf(heap, walkDeclared(heap, rootNodes))

\* the lines the visitor of the second walkDeclared writes
scriptOf(heap, order) ==
  Concat([i \in DOMAIN order |->
    IF heap[order[i]].type = "text"
    THEN <<Line("script", heap[order[i]].node, <<>>, "",
                Trim(heap[order[i]].content), <<>>),
           BlankLine>>
    ELSE <<>>])

\* mutant: only the first script node is walked
scriptLinesFirst(heap, scripts) ==
  scriptOf(heap, walkDeclared(heap, IF scripts = <<>> THEN <<>> ELSE <<Head(scripts)>>))

\* the second walkDeclared of compile: the text of the script nodes
scriptLines(heap, scripts) == scriptOf(heap, walkDeclared(heap, scripts))

eventLines(heap, events) ==
  [i \in DOMAIN events |->
     Line("event", heap[events[i].node].node, nameof(heap, events[i].node),
          "addEventListener", events[i].event.eventName, events[i].event.variable)]

\* the lines compile writes for the buckets prepareNodes returned
generate(heap, p) ==
  <<OpenLine>> \o structureLines(heap, p.rootNodes)
    \o scriptLines(heap, p.scripts)
    \o eventLines(heap, collectEvents(heap, p.rootNodes))
    \o <<CloseLine>>

\* prepareNodes(reduce(parsedNodes, visit))
prepared(r) == generate(r.heap, prepareNodes(r.heap, r.out))

\* compile(nodes): the lines of the string it returns
compile(ns, parsedNodes) == prepared(reduce(ns, parsedNodes))

compileStep ==
  /\ pc = "parsed"
  /\ output' = compile(nodes, roots)
  /\ pc' = "compiled"
  /\ UNCHANGED <<parseVars, flatOut, visited, attrVars>>

InitRest ==
  /\ refCount = 0
  /\ nodes = <<>>
  /\ nodeStack = <<>>
  /\ lastNode = 0
  /\ flatNodes = <<>>
  /\ roots = <<>>
  /\ flatOut = <<>>
  /\ visited = <<>>
  /\ output = <<>>
  /\ attrOut = None
  /\ eventLog = <<>>
  /\ callNo = 1

Init ==
  /\ pc = "parsing"
  /\ attrIn = Attr(<<>>, <<>>)
  /\ InitRest

Next ==
  \/ \E i \in OpenTagInputs : onopentag(i.name, i.attribs) /\ UNCHANGED callVars
  \/ onclosetag /\ UNCHANGED callVars
  \/ \E t \in TextInputs : ontext(t) /\ UNCHANGED callVars
  \/ end /\ UNCHANGED callVars
  \/ flatStep /\ UNCHANGED callVars
  \/ compileStep /\ UNCHANGED callVars

Spec == Init /\ [][Next]_vars

\* ------------------------------------- the classifier on its own inputs
AttrNames ==
  { <<"=">>, <<"=", "x">>, <<"=", "{", "x">>,
    RefName, <<"#", "r", "e", "f", "2">>,
    <<"{", "x", "}">>, <<"{", " ", "x", " ", "}">>, <<"{", "o", "n", ":", "c", "}">>,
    OnClick, OnKeyMod, <<"o", "n", ":", "c", ".", "m", ".", "p">>,
    <<"o", "n", ":", "c", ":", "d">>, <<"o", "n", ":">>, <<"o", "n">>,
    <<":", "o", "n">>, <<":", "c">>, <<"o", ":", "c">>, <<"x", "o", "n", ":", "c">>,
    <<"x">>, ClassName }

AttrValues ==
  { <<>>, <<" ">>, <<" ", " ">>, <<"a">>, <<" ", "a", " ">>, <<"h">>,
    <<"{", "h", "}">>, <<"{", " ", "h", " ", "}">>, <<"{">>, <<" ", "{", "h", "}">> }

InitAttr ==
  /\ pc = "attr"
  /\ attrIn \in {Attr(n, v) : n \in AttrNames, v \in AttrValues}
  /\ InitRest

\* compileAttribute(attr)
compileAttributeStep ==
  /\ pc = "attr"
  /\ attrOut' = compileAttribute(attrIn)
  /\ pc' = "classified"
  /\ UNCHANGED <<parseVars, flatOut, visited, output, attrIn>>

\* compile(nodes) on the one-element document <div name="value">
compileElementStep ==
  /\ pc = "attr"
  /\ output' = compile(<<TagNode(1, 0, "div", <<attrIn>>)>>, <<1>>)
  /\ pc' = "generated"
  /\ UNCHANGED <<parseVars, flatOut, visited, attrVars>>

NextAttr ==
  \/ compileAttributeStep /\ UNCHANGED callVars
  \/ compileElementStep /\ UNCHANGED callVars

SpecAttr == InitAttr /\ [][NextAttr]_vars

\* ------------------------------------------- compile called more than once
MaxEvents == 4
MaxCalls == 2

Ev(k, n, a, t) == [kind |-> k, name |-> n, attribs |-> a, text |-> t]

CallOpenTags ==
  { [name |-> "div", attribs |-> <<>>],
    [name |-> "script", attribs |-> <<>>],
    [name |-> "div", attribs |-> <<Attr(RefName, <<" ">>)>>],
    [name |-> "div", attribs |-> <<Attr(OnClick, <<"{", "h", "}">>)>>] }

CallTexts == { <<" ", "x", " ">>, <<ENT, "y">>, <<" ">>, <<"<", "!", "-", "-", "c">> }

\* the tokenizer hands one more event to the invocation under way
logEvent(e) ==
  /\ Len(eventLog) < MaxEvents
  /\ eventLog' = Append(eventLog, e)
  /\ UNCHANGED callNo

\* mutant: the counter and the node objects outlive the invocation
invokeSharedCounter ==
  /\ pc \in {"compiled", "error"}
  /\ callNo < MaxCalls
  /\ callNo' = callNo + 1
  /\ eventLog' = <<>>
  /\ nodeStack' = <<>>
  /\ lastNode' = 0
  /\ flatNodes' = <<>>
  /\ roots' = <<>>
  /\ output' = <<>>
  /\ pc' = "parsing"
  /\ UNCHANGED <<refCount, nodes, flatOut, visited, attrVars>>

\* compile(html) is called again after a call returned or threw: parse declares
\* flatNodes, refCount, lastNode and nodeStack, and compile declares compiledCode
\* and events, inside the function body
invoke ==
  /\ pc \in {"compiled", "error"}
  /\ callNo < MaxCalls
  /\ callNo' = callNo + 1
  /\ eventLog' = <<>>
  /\ refCount' = 0
  /\ nodes' = <<>>
  /\ nodeStack' = <<>>
  /\ lastNode' = 0
  /\ flatNodes' = <<>>
  /\ roots' = <<>>
  /\ output' = <<>>
  /\ pc' = "parsing"
  /\ UNCHANGED <<flatOut, visited, attrVars>>

NextCalls ==
  \/ \E i \in CallOpenTags :
       onopentag(i.name, i.attribs) /\ logEvent(Ev("open", i.name, i.attribs, <<>>))
  \/ onclosetag /\ logEvent(Ev("close", "", <<>>, <<>>))
  \/ \E t \in CallTexts : ontext(t) /\ logEvent(Ev("text", "", <<>>, t))
  \/ end /\ UNCHANGED callVars
  \/ compileStep /\ UNCHANGED callVars
  \/ invoke

SpecCalls == Init /\ [][NextCalls]_vars

\* ---- parse as a function of the event sequence, from freshly declared locals
Locals(c, ns, stack, last, fl) ==
  [refCount |-> c, nodes |-> ns, nodeStack |-> stack, lastNode |-> last,
   flatNodes |-> fl]

parseParent(st) ==
  IF st.nodeStack = <<>> THEN 0 ELSE st.nodeStack[Len(st.nodeStack)]

parseOpen(st, e) ==
  Locals(st.refCount + 1,
         Append(st.nodes, TagNode(st.refCount + 1, parseParent(st), e.name,
                                  normalizeAttributes(e.attribs))),
         Append(st.nodeStack, st.refCount + 1),
         st.refCount + 1,
         st.flatNodes)

parseClose(st) ==
  IF st.nodeStack = <<>> THEN st
  ELSE Locals(st.refCount, st.nodes,
              SubSeq(st.nodeStack, 1, Len(st.nodeStack) - 1),
              0,
              Append(st.flatNodes, st.nodeStack[Len(st.nodeStack)]))

parseText(st, e) ==
  LET text == NormalizeNewlines(Trim(e.text)) IN
  IF text = <<>> \/ StartsWith(text, <<"<", "!", "-", "-">>) THEN st
  ELSE IF st.lastNode # 0 /\ st.nodes[st.lastNode].type = "text"
  THEN [st EXCEPT !.nodes[st.lastNode].textContent = @ \o text]
  ELSE Locals(st.refCount + 1,
              Append(st.nodes, TextNode(st.refCount + 1, parseParent(st), text)),
              st.nodeStack,
              st.refCount + 1,
              Append(st.flatNodes, st.refCount + 1))

RECURSIVE parseEvents(_, _)
parseEvents(st, es) ==
  IF es = <<>> THEN st
  ELSE parseEvents(CASE Head(es).kind = "open" -> parseOpen(st, Head(es))
                     [] Head(es).kind = "close" -> parseClose(st)
                     [] OTHER -> parseText(st, Head(es)),
                   Tail(es))

parseEnd(st) ==
  LET closed == st.flatNodes \o Reverse(st.nodeStack)
      linked == LinkChildren(st.nodes, closed)
      IsRoot(n) == linked[n].parent = 0
  IN [nodes |-> linked, roots |-> SelectSeq(closed, IsRoot)]

parse(es) == parseEnd(parseEvents(Locals(0, <<>>, <<>>, 0, <<>>), es))

compileParsed(p) == compile(p.nodes, p.roots)

\* ------------------------------------------------------------- properties
Lines(kinds) == {i \in DOMAIN output : output[i].kind \in kinds}
Structural == {"create", "attr", "append"}
Special == {"template", "script", "style"}
NodeIds == 1..refCount

\* the lines that create node n
CreateLines(n) == {i \in Lines({"create"}) : output[i].of = n}
HasCreate(n) == CreateLines(n) # {}

RECURSIVE Ancestors(_)
Ancestors(n) ==
  IF nodes[n].parent = 0 THEN {}
  ELSE {nodes[n].parent} \cup Ancestors(nodes[n].parent)

RootOf(n) == CHOOSE r \in {n} \cup Ancestors(n) : nodes[r].parent = 0

\* C1: every appendChild line comes after a creation line declaring the parent
\* handle it references and after a creation line declaring the appended child.
C1_ParentBeforeChild ==
  pc = "compiled" =>
    \A i \in Lines({"append"}) :
      /\ \E j \in Lines({"create"}) : j < i /\ output[j].handle = output[i].handle
      /\ \E k \in Lines({"create"}) : k < i /\ output[k].handle = output[i].arg

C1_Witness ==
  /\ pc = "compiled"
  /\ \E i, j \in Lines({"append"}) :
       i # j /\ nodes[output[j].of].parent = output[i].of

\* C2: compileAttribute classifies by first match: '=' prefix, '#ref', '{' prefix
\* of the name, '{' prefix of the value (event when the part before the first ':'
\* is 'on', else variable with the name unchanged), else a plain attribute.
C2_ClassifyOrder ==
  pc = "classified" =>
    LET n == attrIn.name
        v == attrIn.value
        first(q, c) == q # <<>> /\ q[1] = c
        onPrefix == \E i \in 2..Len(n) :
                      /\ n[i] = ":"
                      /\ \A j \in 1..(i - 1) : n[j] # ":"
                      /\ SubSeq(n, 1, i - 1) = <<"o", "n">>
    IN IF first(n, "=") THEN attrOut = None
       ELSE IF n = <<"#", "r", "e", "f">> THEN attrOut.type = "ref"
       ELSE IF first(n, "{")
         THEN attrOut.type = "variable" /\ attrOut.name = attrOut.variable
       ELSE IF first(v, "{")
         THEN IF onPrefix THEN attrOut.type = "event"
              ELSE attrOut.type = "variable" /\ attrOut.name = n
       ELSE attrOut.type = "attribute" /\ attrOut.name = n /\ attrOut.value = v

C2_Witness ==
  /\ pc = "classified"
  /\ attrIn.name = <<"o", "n", ":", "c">>
  /\ attrIn.value = <<"h">>
  /\ attrOut.type = "attribute"

\* C3: a tag node is created with createElementNS exactly when its own tag is
\* 'svg' or the tag of one of its ancestors is 'svg'; otherwise with createElement.
C3_SvgInherited ==
  pc = "compiled" =>
    \A i \in Lines({"create"}) :
      LET n == output[i].of
          inSvg == \E m \in {n} \cup Ancestors(n) : nodes[m].tag = "svg"
      IN nodes[n].type = "tag" =>
           /\ output[i].form \in {"createElementNS", "createElement"}
           /\ output[i].form = "createElementNS" <=> inSvg

C3_Witness ==
  /\ pc = "compiled"
  /\ \E i \in Lines({"create"}) :
       LET n == output[i].of
       IN /\ output[i].form = "createElementNS"
          /\ nodes[n].tag = "div"
          /\ nodes[n].parent # 0
          /\ nodes[nodes[n].parent].tag = "div"
          /\ \E m \in Ancestors(n) : nodes[m].tag = "svg"

IsSpecial(n) == nodes[n].type = "tag" /\ nodes[n].tag \in Special

\* the appendChild line of node n names the handles its own creation line and
\* the creation line of its parent declare
AppendedToParent(n) ==
  \E i \in Lines({"append"}) :
    /\ output[i].of = n
    /\ \E j \in CreateLines(n) : output[j].handle = output[i].arg
    /\ \E k \in CreateLines(nodes[n].parent) : output[k].handle = output[i].handle

C5_TemplateChildrenEmitted ==
  pc = "compiled" =>
    \A n \in NodeIds :
      nodes[n].parent # 0 =>
        /\ nodes[RootOf(n)].tag = "template" => HasCreate(n)
        /\ nodes[RootOf(n)].tag \in {"script", "style"} => ~HasCreate(n)

RECURSIVE Sorted(_)
\* the members of a set of refIds in document order
Sorted(S) ==
  IF S = {} THEN <<>>
  ELSE LET m == CHOOSE x \in S : \A y \in S : x <= y
       IN <<m>> \o Sorted(S \ {m})

\* the text of the spliced script lines, in output order
SplicedTexts ==
  LET at == Sorted(Lines({"script"}))
  IN [i \in DOMAIN at |-> output[at[i]].arg]

IsScriptRoot(n) == nodes[n].parent = 0 /\ nodes[n].tag = "script"
ScriptRoots == SelectSeq(roots, IsScriptRoot)

\* whitespace stripped from both ends
Stripped(t) ==
  LET keep == {i \in DOMAIN t : t[i] \notin WhiteSpace}
  IN IF keep = {} THEN <<>>
     ELSE SubSeq(t, CHOOSE i \in keep : \A j \in keep : i <= j,
                    CHOOSE i \in keep : \A j \in keep : i >= j)

SplicedAfterStructure ==
  \A i \in Lines({"script"}) : \A j \in Lines(Structural) : j < i

IsEventAttr(a) ==
  /\ Len(a.name) >= 3 /\ SubSeq(a.name, 1, 3) = <<"o", "n", ":">>
  /\ a.value # <<>> /\ a.value[1] = "{"

\* the event name: what follows 'on:' up to the next ':', '|' or '.'
EventNameOf(a) ==
  LET rest == SubSeq(a.name, 4, Len(a.name))
      stops == {i \in DOMAIN rest : rest[i] \in {":", "|", "."}}
  IN IF stops = {} THEN rest
     ELSE SubSeq(rest, 1, (CHOOSE i \in stops : \A j \in stops : i <= j) - 1)

\* <<node, event name>> for every event attribute of every created node, by
\* node in document order and by attribute in declaration order
ExpectedEvents ==
  LET owners == Sorted({n \in NodeIds : nodes[n].type = "tag" /\ HasCreate(n)})
      EventsOf(n) ==
        LET evs == SelectSeq(nodes[n].attributes, IsEventAttr)
        IN [j \in DOMAIN evs |-> <<n, EventNameOf(evs[j])>>]
  IN Concat([i \in DOMAIN owners |-> EventsOf(owners[i])])

\* C7: one addEventListener line per event directive of every created node, in
\* walk order of the nodes and attribute order within a node, all of them after
\* every structural line and after the spliced script text.
C7_EventsLast ==
  pc = "compiled" =>
    LET at == Sorted(Lines({"event"}))
    IN /\ [i \in DOMAIN at |-> <<output[at[i]].of, output[at[i]].arg>>] = ExpectedEvents
       /\ \A i \in Lines({"event"}) :
            \A j \in Lines(Structural \cup {"script"}) : j < i

C7_Witness ==
  /\ pc = "compiled"
  /\ Cardinality(Lines({"event"})) = 2
  /\ Lines({"script"}) # {}
  /\ Lines({"attr"}) # {}

\* C8: a document whose roots are all script or style nodes (or that has no
\* root) compiles to the empty string.
C8_EmptyOutput ==
  pc = "compiled" =>
    ((\A i \in DOMAIN roots : nodes[roots[i]].tag \in {"script", "style"})
       => output = <<>>)

\* C9: a '#ref' attribute names the handle of its element: the value with the
\* whitespace stripped from both ends, and 'el' when nothing is left (no value,
\* an empty value and a whitespace-only value alike).
C9_DefaultRefName ==
  attrIn.name = <<"#", "r", "e", "f">> =>
    LET expected == IF Stripped(attrIn.value) = <<>> THEN <<"e", "l">>
                    ELSE Stripped(attrIn.value)
    IN /\ pc = "classified" => attrOut.type = "ref" /\ attrOut.name = expected
       /\ pc = "generated" =>
            /\ output[2].kind = "create"
            /\ output[2].handle = expected

C9_Witness ==
  /\ pc = "generated"
  /\ attrIn = Attr(RefName, <<" ", " ">>)
  /\ output[2].handle = El

RECURSIVE Reach(_)
\* the nodes reachable from a set of nodes through children
Reach(S) ==
  LET S2 == S \cup UNION {Range(nodes[n].children) : n \in S}
  IN IF S2 = S THEN S ELSE Reach(S2)

Descendants(n) == Reach(Range(nodes[n].children))

\* C10: on the roots parse returned, walk calls the visitor once per node and
\* flat returns every node of the tree once, a node before its subtree, the
\* subtree contiguous, siblings in children order.
C10_FlatPreOrder ==
  pc = "flat" =>
    LET tree == Reach(Range(roots))
        Pos(n) == CHOOSE i \in DOMAIN flatOut : flatOut[i] = n
        InOrder(ids) ==
          \A i, j \in DOMAIN ids : i < j => Pos(ids[i]) < Pos(ids[j])
    IN /\ visited = flatOut
       /\ Len(flatOut) = Cardinality(tree)
       /\ Range(flatOut) = tree
       /\ \A i, j \in DOMAIN flatOut :
            i # j => nodes[flatOut[i]].refId # nodes[flatOut[j]].refId
       /\ InOrder(roots)
       /\ \A n \in tree :
            /\ InOrder(nodes[n].children)
            /\ {Pos(m) : m \in Descendants(n)}
                 = (Pos(n) + 1)..(Pos(n) + Cardinality(Descendants(n)))

C10_Witness ==
  /\ pc = "flat"
  /\ Len(flatOut) = 3
  /\ Len(roots) = 2
  /\ nodes[roots[1]].children # <<>>

RECURSIVE OpenDepth(_, _)
\* the number of tags open after the events es, starting from d open tags;
\* -1 once a close-tag event arrived with no tag open
OpenDepth(es, d) ==
  IF es = <<>> THEN d
  ELSE IF Head(es).kind = "open" THEN OpenDepth(Tail(es), d + 1)
  ELSE IF Head(es).kind = "close"
  THEN (IF d = 0 THEN -1 ELSE OpenDepth(Tail(es), d - 1))
  ELSE OpenDepth(Tail(es), d)

RefAttrs(n) ==
  {k \in DOMAIN nodes[n].attributes : nodes[n].attributes[k].name = RefName}

\* the handle C13 gives node n: its ref name, else 'el' followed by its refId
HandleOf(n) ==
  IF RefAttrs(n) = {} THEN El \o Digits(nodes[n].refId)
  ELSE LET v == Stripped(nodes[n].attributes[CHOOSE k \in RefAttrs(n) : TRUE].value)
       IN IF v = <<>> THEN El ELSE v

\* C13: every creation statement declares the handle of its node (the ref name,
\* else 'el' followed by the refId), and no two creation statements of one
\* output declare the same handle.
C13_UniqueHandles ==
  pc = "compiled" =>
    /\ \A i \in Lines({"create"}) :
         output[i].handle = HandleOf(output[i].of)
           \/ \E j \in Lines({"create"}) :
                j < i /\ output[j].handle = HandleOf(output[i].of)
    /\ \A i, j \in Lines({"create"}) :
         i # j => output[i].handle # output[j].handle

\* heap: the values visit returned, in call order; out: the value reduce returned
ReducedMirrorsRaw(heap, out) ==
  LET tree == Reach(Range(roots))
      At(n) == CHOOSE d \in DOMAIN heap : heap[d].node = n
      InOrder(ids) ==
        \A i, j \in DOMAIN ids : i < j => At(ids[i]) < At(ids[j])
      Raw(ds) == [i \in DOMAIN ds |-> heap[ds[i]].node]
  IN /\ Len(heap) = Cardinality(tree)
     /\ {heap[d].node : d \in DOMAIN heap} = tree
     /\ InOrder(roots)
     /\ \A n \in tree :
          /\ InOrder(nodes[n].children)
          /\ {At(m) : m \in Descendants(n)}
               = (At(n) + 1)..(At(n) + Cardinality(Descendants(n)))
     /\ \A d \in DOMAIN heap :
          /\ IF nodes[heap[d].node].parent = 0 THEN heap[d].parent = 0
             ELSE /\ heap[d].parent \in 1..(d - 1)
                  /\ heap[heap[d].parent].node = nodes[heap[d].node].parent
          /\ Raw(heap[d].children) = nodes[heap[d].node].children
     /\ Raw(out) = roots

ReduceOf(r) == ReducedMirrorsRaw(r.heap, r.out)

\* C14: on the roots parse returned, reduce calls visit once per node in
\* pre-order; the parent argument of a root is undefined and that of any other
\* node is the value visit returned earlier for its raw parent; the declared
\* nodes compile builds have the parent and the children, in order, that are the
\* images of the raw parent and the raw children.
C14_ReduceMirrorsTree ==
  pc = "compiled" => ReduceOf(reduce(nodes, roots))

C14_Witness ==
  /\ pc = "compiled"
  /\ \E n \in DOMAIN nodes :
       /\ nodes[n].parent # 0
       /\ nodes[nodes[n].parent].parent # 0
       /\ reduce(nodes, roots).heap[3].parent = 2
       /\ reduce(nodes, roots).heap[2].children = <<3>>

\* the text events of es that the parser drops: empty once trimmed, or a comment
DroppedRuns(es) ==
  {i \in DOMAIN es :
     /\ es[i].kind = "text"
     /\ Trim(es[i].text) = <<>> \/ StartsWith(Trim(es[i].text), <<"<", "!", "-", "-">>)}

\* C15: in every state of a parse the i-th node created has refId i, so the
\* refIds are distinct, positive and grow in document order; the parent of a
\* node has a smaller refId; the counter equals the number of nodes created
\* (dropped and merged text runs take no refId); and no step of a parse lowers
\* the counter or gives a new node a refId that is not above the existing ones.
C15_RefIdsInDocumentOrder ==
  /\ [](/\ refCount = Len(nodes)
        /\ \A n \in DOMAIN nodes :
             /\ nodes[n].refId = n
             /\ nodes[n].parent \in 0..(nodes[n].refId - 1)
        /\ \A m, n \in DOMAIN nodes : m # n => nodes[m].refId # nodes[n].refId)
  /\ [][callNo' = callNo =>
          /\ refCount' >= refCount
          /\ \A n \in DOMAIN nodes' \ DOMAIN nodes :
               \A m \in DOMAIN nodes : nodes'[n].refId > nodes[m].refId]_vars

C15_Witness ==
  /\ pc = "parsing"
  /\ DroppedRuns(eventLog) # {}
  /\ Len(eventLog) = 4
  /\ refCount = 2
  /\ nodes[2].parent = 1
  /\ nodes[2].textContent = <<"x", "x">>

\* ids lists each member of S once, in document order
ListsInOrder(ids, S) ==
  /\ Range(ids) = S
  /\ \A i, j \in DOMAIN ids : i < j => nodes[ids[i]].refId < nodes[ids[j]].refId

\* C16: when parse has returned, the children of every tag node are the nodes
\* whose parent it is, each once and in document order; the returned sequence
\* is the nodes whose parent is null, in document order; and every node created
\* is reachable from the returned nodes through children.
C16_ChildrenMatchParents ==
  pc = "parsed" =>
    /\ \A n \in DOMAIN nodes :
         nodes[n].type = "tag" =>
           ListsInOrder(nodes[n].children, {m \in DOMAIN nodes : nodes[m].parent = n})
    /\ ListsInOrder(roots, {m \in DOMAIN nodes : nodes[m].parent = 0})
    /\ Reach(Range(roots)) = DOMAIN nodes
    /\ Cardinality(DOMAIN nodes) = refCount

C16_Witness ==
  /\ pc = "parsed"
  /\ refCount = 3
  /\ \E n \in DOMAIN nodes :
       /\ Len(nodes[n].children) = 2
       /\ nodes[nodes[n].children[1]].type = "tag"
       /\ nodes[nodes[n].children[2]].type = "text"

====
